---- MODULE Spec2Model ----
(***************************************************************************)
(* The four CLT demonstration scripts: CLT.py, Animated_Histogram.py,      *)
(* Interactive_Sample_Size_Slider.py and violin.py.                        *)
(*                                                                         *)
(* One behaviour is one run of one script (the variable script says        *)
(* which).  Floats are exact rationals [num, den]; den = 0 is NaN (the     *)
(* 0/0 numpy computes for the mean of an empty array).  numpy's global     *)
(* random generator is a deterministic stream fixed by its seed: Init      *)
(* draws the seed, every draw reads the stream at the generator's counter  *)
(* and advances it.                                                        *)
(***************************************************************************)
EXTENDS Integers, Sequences, FiniteSets, TLC

VARIABLES
    script,            \* which script (or function entry) this run executes
    pc,                \* position in the script
    population,        \* the population array
    rng,               \* np.random's global generator: [key, ctr]
    sample_size,       \* the sample size in use
    n_frames,          \* the frames= argument of FuncAnimation
    max_sample_size,   \* clt_violin_comparison_gif's max_sample_size argument
    frame,             \* the loop / frame index of the running loop
    sample_means,      \* the sample-mean collection of the running script
    sample_means_list, \* violin.py: one collection per displayed size
    display_sizes,     \* violin.py: the sizes displayed in the current frame
    mu,                \* <<>> while unbound, else <<mu>>
    sigma,             \* <<>> while unbound, else <<sign class of sigma>>
    ax2,               \* what the last update drew on the sampling axes
    bins,              \* <<>> or <<bin count passed to ax2.hist>>
    error,             \* "none" or the exception that ended the run
    stdout,            \* the messages printed so far
    files,             \* the artifacts saved so far
    ffmpeg_path,       \* shutil.which('ffmpeg'): "None" or a path
    mp4_fault,         \* what goes wrong with the encoder during the MP4 save
    update_calls       \* number of times update(frame) has been entered

vars == <<script, pc, population, rng, sample_size, n_frames, max_sample_size, frame,
          sample_means, sample_means_list, display_sizes, mu, sigma, ax2,
          bins, error, stdout, files, ffmpeg_path, mp4_fault, update_calls>>

(***************************************************************************)
(* Bounds of the model.                                                    *)
(***************************************************************************)
NumSeeds == 2           \* seeds 0..NumSeeds-1
RngMod == 11            \* range of one raw output of the generator
RngPeriod == 64         \* the generator's counter wraps here
MaxPlotLen == 2         \* plot_clt_results is tried on 0..MaxPlotLen means

RECURSIVE SeqsUpTo(_, _)
SeqsUpTo(S, n) ==
    IF n = 0 THEN {<<>>}
    ELSE LET shorter == SeqsUpTo(S, n - 1)
         IN  shorter \cup {Append(s, v) : s \in {t \in shorter : Len(t) = n - 1}, v \in S}

\* The populations tried: values as np.random.randint(1, 101) draws them,
\* and the empty array a caller may pass.
Populations == {<<>>, <<7>>, <<1, 100>>, <<100, 1, 50>>}
Seeds == 0 .. (NumSeeds - 1)

(***************************************************************************)
(* Floats as exact rationals.                                              *)
(***************************************************************************)
RECURSIVE GCD(_, _)
GCD(a, b) == IF b = 0 THEN a ELSE GCD(b, a % b)

Abs(a) == IF a < 0 THEN -a ELSE a

NaN == [num |-> 0, den |-> 0]
IsNaN(x) == x.den = 0

\* num / den as a float: 0/0 is nan, otherwise the reduced fraction.
Div(num, den) ==
    IF den = 0 THEN NaN
    ELSE LET g == GCD(Abs(num), Abs(den))
             s == IF den < 0 THEN -1 ELSE 1
         IN  [num |-> (s * num) \div g, den |-> (s * den) \div g]

FromInt(v) == [num |-> v, den |-> 1]

FAdd(x, y) ==
    IF IsNaN(x) \/ IsNaN(y) THEN NaN
    ELSE Div(x.num * y.den + y.num * x.den, x.den * y.den)

FDivInt(x, n) ==
    IF IsNaN(x) THEN NaN
    ELSE IF n = 0 THEN NaN   \* only 0.0 / 0 occurs: the sum of nothing
    ELSE Div(x.num, x.den * n)

\* IEEE comparisons: anything compared with nan is false.
FEq(x, y) == ~IsNaN(x) /\ ~IsNaN(y) /\ x.num * y.den = y.num * x.den
FLe(x, y) == ~IsNaN(x) /\ ~IsNaN(y) /\ x.num * y.den <= y.num * x.den

RECURSIVE SumInts(_, _)
SumInts(a, i) == IF i = 0 THEN 0 ELSE a[i] + SumInts(a, i - 1)

\* Pairwise summation of a[lo..hi].
RECURSIVE SumFloats(_, _, _)
SumFloats(a, lo, hi) ==
    IF lo > hi THEN FromInt(0)
    ELSE IF lo = hi THEN a[lo]
    ELSE LET mid == (lo + hi) \div 2
         IN  FAdd(SumFloats(a, lo, mid), SumFloats(a, mid + 1, hi))

RECURSIVE MinFloats(_, _, _)
MinFloats(a, lo, hi) ==
    IF lo = hi THEN a[lo]
    ELSE LET mid == (lo + hi) \div 2
             l == MinFloats(a, lo, mid)
             r == MinFloats(a, mid + 1, hi)
         IN  IF FLe(r, l) THEN r ELSE l

RECURSIVE MaxFloats(_, _, _)
MaxFloats(a, lo, hi) ==
    IF lo = hi THEN a[lo]
    ELSE LET mid == (lo + hi) \div 2
             l == MaxFloats(a, lo, mid)
             r == MaxFloats(a, mid + 1, hi)
         IN  IF FLe(l, r) /\ ~FEq(l, r) THEN r ELSE l

MinInts(a) == CHOOSE v \in {a[i] : i \in 1..Len(a)} : \A i \in 1..Len(a) : v <= a[i]
MaxInts(a) == CHOOSE v \in {a[i] : i \in 1..Len(a)} : \A i \in 1..Len(a) : v >= a[i]

(***************************************************************************)
(* numpy.                                                                  *)
(***************************************************************************)
\* One raw output of the generator with key k at counter c.
Mix(k, c) == (((c + k) * (c + k + 1)) \div 2 + c) % RngMod

Advance(g, m) == [g EXCEPT !.ctr = (@ + m) % RngPeriod]

\* np.random.choice(a, size=size, replace=True): ValueError for a negative
\* size and for an empty a unless no samples are taken; otherwise size
\* elements of a at uniformly drawn indices.
np_random_choice(a, size, g) ==
    IF size < 0 THEN [err |-> "ValueError", val |-> <<>>]
    ELSE IF Len(a) = 0 /\ size # 0 THEN [err |-> "ValueError", val |-> <<>>]
    ELSE [err |-> "none",
          val |-> [j \in 1..size |->
                     a[(Mix(g.key, (g.ctr + j - 1) % RngPeriod) % Len(a)) + 1]]]

\* The generator after np_random_choice(a, size, g).
rng_after_choice(a, size, g) ==
    IF size < 0 \/ (Len(a) = 0 /\ size # 0) THEN g ELSE Advance(g, size)

\* A mean that divides by one more than the count.
ndarray_mean_off_by_one(a) == Div(SumInts(a, Len(a)), Len(a) + 1)

\* ndarray.mean() of an integer array: add.reduce / count; 0/0 = nan (with a
\* RuntimeWarning, no exception) for an empty array.
ndarray_mean(a) == Div(SumInts(a, Len(a)), Len(a))

\* np.mean of a sequence of floats.
np_mean(xs) == FDivInt(SumFloats(xs, 1, Len(xs)), Len(xs))

HasNaN(xs) == \E i \in 1..Len(xs) : IsNaN(xs[i])

\* The sample standard deviation (ddof = 1): nan for fewer than two values.
np_std_ddof1(xs) ==
    IF Len(xs) <= 1 \/ HasNaN(xs) THEN "nan"
    ELSE IF \A i \in 1..Len(xs) : FEq(xs[i], xs[1]) THEN "zero"
    ELSE "positive"

\* np.std (ddof = 0) kept up to its sign class: "nan" for an empty input or
\* one holding nan, "zero" when every deviation from the mean is zero,
\* "positive" otherwise.
np_std(xs) ==
    IF Len(xs) = 0 \/ HasNaN(xs) THEN "nan"
    ELSE IF \A i \in 1..Len(xs) : FEq(xs[i], xs[1]) THEN "zero"
    ELSE "positive"

\* min()/max() of the collection, the end points of np.linspace: both raise
\* ValueError on an empty input.
min_of_empty_is_nan(xs) ==
    IF Len(xs) = 0 THEN [err |-> "none", lo |-> NaN, hi |-> NaN]
    ELSE [err |-> "none", lo |-> MinFloats(xs, 1, Len(xs)),
          hi |-> MaxFloats(xs, 1, Len(xs))]

min_max(xs) ==
    IF Len(xs) = 0 THEN [err |-> "ValueError", lo |-> NaN, hi |-> NaN]
    ELSE [err |-> "none", lo |-> MinFloats(xs, 1, Len(xs)),
          hi |-> MaxFloats(xs, 1, Len(xs))]

\* Axes.hist(xs, bins=<int>): np.histogram raises ValueError when the
\* autodetected range is not finite, i.e. when xs holds nan.
hist_raises(xs) == HasNaN(xs)

\* A list with v inserted at the front.
list_insert_front(l, v) == <<v>> \o l

\* list.append
list_append(l, v) == Append(l, v)

(***************************************************************************)
(* CLT.py                                                                  *)
(***************************************************************************)
CLT_iterations == 10
CLT_sample_size == 30

FloatValues == {FromInt(5), Div(5, 2)}
PlotInputs == SeqsUpTo(FloatValues, MaxPlotLen)

\* What a normal-curve overlay puts on the axes.
CurveArtists == {"curve", "axvline", "legend"}

InitCommon ==
    /\ rng \in [key : Seeds, ctr : {0}]
    /\ frame = 0
    /\ sample_means_list = <<>>
    /\ display_sizes = <<>>
    /\ mu = <<>>
    /\ sigma = <<>>
    /\ ax2 = {}
    /\ bins = <<>>
    /\ error = "none"
    /\ stdout = <<>>
    /\ files = {}
    /\ update_calls = 0

\* CLT.py run as a script: s is drawn, sample_means = [].
InitCLT ==
    /\ script = "CLT"
    /\ max_sample_size = 0
    /\ pc = "loop"
    /\ population \in {p \in Populations : Len(p) > 0}
    /\ sample_size = CLT_sample_size
    /\ n_frames = CLT_iterations
    /\ sample_means = <<>>
    /\ ffmpeg_path = "None"
    /\ mp4_fault = "none"

\* plot_clt_results called on an array of the caller's.
InitPlot ==
    /\ script = "plot_clt_results"
    /\ max_sample_size = 0
    /\ pc = "plot"
    /\ population = <<>>
    /\ sample_size = 0
    /\ n_frames = 0
    /\ sample_means \in PlotInputs
    /\ ffmpeg_path = "None"
    /\ mp4_fault = "none"

\* One pass of "for i in range(10)"; the last one goes on to np.array and
\* the call of plot_clt_results.
CLT_loop ==
    /\ script = "CLT"
    /\ pc = "loop"
    /\ frame < CLT_iterations
    /\ \E r \in {np_random_choice(population, CLT_sample_size, rng)} :
           /\ sample_means' = list_append(sample_means, ndarray_mean(r.val))
           /\ rng' = rng_after_choice(population, CLT_sample_size, rng)
    /\ frame' = frame + 1
    /\ pc' = IF frame + 1 = CLT_iterations THEN "plot" ELSE "loop"
    /\ UNCHANGED <<script, population, sample_size, n_frames, max_sample_size,
                   sample_means_list, display_sizes, mu, sigma, ax2, bins, error,
                   stdout, files, ffmpeg_path, mp4_fault, update_calls>>

\* plot_clt_results(sample_means): histogram, mu and sigma, the x range, the
\* overlay.  mu and sigma keep what was assigned when an exception is raised.
plot_clt_results ==
    /\ script \in {"CLT", "plot_clt_results"}
    /\ pc = "plot"
    /\ \E mm \in {min_max(sample_means)} :
           IF hist_raises(sample_means)
           THEN /\ error' = "ValueError"
                /\ UNCHANGED <<mu, sigma, ax2, bins>>
           ELSE /\ bins' = <<30>>
                /\ mu' = <<np_mean(sample_means)>>
                /\ sigma' = <<np_std(sample_means)>>
                /\ IF mm.err # "none"
                   THEN /\ error' = mm.err
                        /\ ax2' = {"hist"}
                   ELSE /\ error' = "none"
                        /\ ax2' = {"hist"} \cup CurveArtists
    /\ pc' = "done"
    /\ UNCHANGED <<script, population, rng, sample_size, n_frames,
                   max_sample_size, frame, sample_means, sample_means_list,
                   display_sizes, stdout, files, ffmpeg_path, mp4_fault,
                   update_calls>>

(***************************************************************************)
(* Animated_Histogram.py                                                   *)
(***************************************************************************)
\* The (sample_size, n_frames) animated_clt is called with: the script's own
\* call (30, 200), and short runs with valid and invalid sample sizes.
AnimatedCltCalls == {<<30, 200>>, <<1, 40>>, <<-1, 2>>, <<0, 2>>, <<2, 2>>}

\* What happens to the encoder during the MP4 save, when it was found:
\* nothing, FileNotFoundError when the writer starts it, OSError when the
\* first frame is written to its pipe (the two exceptions the script
\* catches).
Mp4Faults == {"none", "setup", "first_grab"}

MaxBins == 30

\* len(sample_means) > 5: the sample-mean histogram is drawn.
enough_for_hist(L) == L > 5

\* The fit threshold with >= in place of >.
enough_for_fit_ge(L) == L >= 30

\* len(sample_means) > 30: the normal curve is fitted and drawn.
enough_for_fit(L) == L > 30

Min(a, b) == IF a < b THEN a ELSE b

\* The bin count without the cap of 30.
hist_bins_uncapped(L) == L \div 5

\* bins=min(30, len(sample_means) // 5)
hist_bins(L) == Min(MaxBins, L \div 5)

\* animated_clt(population, sample_size, n_frames) has returned anim:
\* sample_means = [], nothing drawn yet.
InitHist ==
    /\ script = "Animated_Histogram"
    /\ max_sample_size = 0
    /\ pc = "main"
    /\ population \in Populations
    /\ \E call \in AnimatedCltCalls :
          /\ sample_size = call[1]
          /\ n_frames = call[2]
    /\ sample_means = <<>>
    /\ ffmpeg_path \in {"None", "/usr/bin/ffmpeg"}
    /\ mp4_fault \in IF ffmpeg_path = "None" THEN {"none"} ELSE Mp4Faults

\* update(frame) of animated_clt on collection sm with generator g: what it
\* leaves behind, and the exception it raises if any.
animated_clt_update(sm, g) ==
    LET r == np_random_choice(population, sample_size, g)
    IN  IF r.err # "none"
        THEN [error |-> r.err, sample_means |-> sm, rng |-> g, mu |-> <<>>,
              sigma |-> <<>>, ax2 |-> ax2, bins |-> bins]
        ELSE LET new == list_append(sm, ndarray_mean(r.val))
                 L == Len(new)
                 g2 == rng_after_choice(population, sample_size, g)
             IN  IF ~enough_for_hist(L)
                 THEN [error |-> "none", sample_means |-> new, rng |-> g2,
                       mu |-> <<>>, sigma |-> <<>>, ax2 |-> {}, bins |-> <<>>]
                 ELSE IF hist_raises(new)
                 THEN [error |-> "ValueError", sample_means |-> new, rng |-> g2,
                       mu |-> <<>>, sigma |-> <<>>, ax2 |-> {},
                       bins |-> <<hist_bins(L)>>]
                 ELSE IF ~enough_for_fit(L)
                 THEN [error |-> "none", sample_means |-> new, rng |-> g2,
                       mu |-> <<>>, sigma |-> <<>>, ax2 |-> {"hist"},
                       bins |-> <<hist_bins(L)>>]
                 ELSE [error |-> "none", sample_means |-> new, rng |-> g2,
                       mu |-> <<np_mean(new)>>, sigma |-> <<np_std(new)>>,
                       ax2 |-> {"hist"} \cup CurveArtists,
                       bins |-> <<hist_bins(L)>>]

\* The state update(frame) leaves, common to the three loops that call it.
CallUpdate(u) ==
    /\ sample_means' = u.sample_means
    /\ rng' = u.rng
    /\ mu' = u.mu
    /\ sigma' = u.sigma
    /\ ax2' = u.ax2
    /\ bins' = u.bins
    /\ error' = u.error
    /\ update_calls' = update_calls + 1

HistFixed == <<script, population, sample_size, n_frames, max_sample_size,
               sample_means_list, display_sizes, ffmpeg_path, mp4_fault>>

\* print("Saving as GIF..."), the PillowWriter, and the start of anim.save,
\* which calls init().
GifBegin(out) == Append(out, "Saving as GIF...")

\* The encoder check without the test for None: the writer is started anyway.
mp4_begin_unchecked ==
    IF mp4_fault = "setup" \/ ffmpeg_path = "None"
    THEN [pc |-> "done", error |-> "FileNotFoundError",
          stdout |-> Append(stdout, "Saving as MP4...")]
    ELSE [pc |-> "mp4_save", error |-> "none",
          stdout |-> Append(stdout, "Saving as MP4...")]

\* Lines 128-134: shutil.which, the skip message, or the FFMpegWriter and the
\* start of anim.save (the writer's setup starts ffmpeg: FileNotFoundError).
mp4_begin ==
    IF ffmpeg_path = "None"
    THEN [pc |-> "gif_save", error |-> "none",
          stdout |-> GifBegin(Append(Append(stdout, "Saving as MP4..."),
                                     "Skipping MP4: ffmpeg not found on PATH"))]
    ELSE IF mp4_fault = "setup"
    THEN [pc |-> "gif_save", error |-> "none",
          stdout |-> GifBegin(Append(Append(stdout, "Saving as MP4..."),
                                     "Skipping MP4 due to ffmpeg error"))]
    ELSE [pc |-> "mp4_save", error |-> "none",
          stdout |-> Append(stdout, "Saving as MP4...")]

Mp4Begin ==
    /\ script = "Animated_Histogram"
    /\ pc = "main"
    /\ pc' = mp4_begin.pc
    /\ error' = mp4_begin.error
    /\ stdout' = mp4_begin.stdout
    /\ frame' = 0
    /\ UNCHANGED <<HistFixed, rng, sample_means, mu, sigma, ax2, bins, files,
                   update_calls>>

\* Whether grab_frame of this frame finds the encoder's pipe broken (OSError).
mp4_grab_fails(f) == mp4_fault = "first_grab" /\ f = 0

\* One frame of anim.save('clt_animation.mp4'): update(frame), grab_frame;
\* after the last frame the file is finished and the GIF save begins.  An
\* OSError is caught by the except clause, any other exception ends the run.
Mp4Frame ==
    /\ script = "Animated_Histogram"
    /\ pc = "mp4_save"
    /\ frame < n_frames
    /\ \E u \in {animated_clt_update(sample_means, rng)} :
           /\ CallUpdate(u)
           /\ IF u.error # "none"
              THEN /\ pc' = "done"
                   /\ UNCHANGED <<frame, stdout, files>>
              ELSE IF mp4_grab_fails(frame)
              THEN /\ pc' = "gif_save"
                   /\ frame' = 0
                   /\ stdout' = GifBegin(Append(stdout, "Skipping MP4 due to ffmpeg error"))
                   /\ UNCHANGED files
              ELSE IF frame + 1 = n_frames
              THEN /\ pc' = "gif_save"
                   /\ frame' = 0
                   /\ files' = files \cup {"clt_animation.mp4"}
                   /\ stdout' = GifBegin(Append(stdout, "Saved as clt_animation.mp4"))
              ELSE /\ pc' = "mp4_save"
                   /\ frame' = frame + 1
                   /\ UNCHANGED <<stdout, files>>
    /\ UNCHANGED HistFixed

\* One frame of anim.save('clt_animation1.gif'); after the last one the file
\* is written and plt.show() starts the animation in the window.
GifFrame ==
    /\ script = "Animated_Histogram"
    /\ pc = "gif_save"
    /\ frame < n_frames
    /\ \E u \in {animated_clt_update(sample_means, rng)} :
           /\ CallUpdate(u)
           /\ IF u.error # "none"
              THEN /\ pc' = "done"
                   /\ UNCHANGED <<frame, stdout, files>>
              ELSE IF frame + 1 = n_frames
              THEN /\ pc' = "show"
                   /\ frame' = 0
                   /\ files' = files \cup {"clt_animation1.gif"}
                   /\ stdout' = Append(stdout, "Saved as clt_animation.gif")
              ELSE /\ pc' = "gif_save"
                   /\ frame' = frame + 1
                   /\ UNCHANGED <<stdout, files>>
    /\ UNCHANGED HistFixed

\* plt.show(): the timer steps the animation once through its frames
\* (repeat=False).
ShowFrame ==
    /\ script = "Animated_Histogram"
    /\ pc = "show"
    /\ frame < n_frames
    /\ \E u \in {animated_clt_update(sample_means, rng)} :
           /\ CallUpdate(u)
           /\ pc' = IF u.error # "none" THEN "done" ELSE "show"
           /\ frame' = IF u.error # "none" THEN frame ELSE frame + 1
    /\ UNCHANGED <<HistFixed, stdout, files>>

\* The window is closed (or the backend shows none): plt.show() returns and
\* the closing messages are printed.
ShowClose ==
    /\ script = "Animated_Histogram"
    /\ pc = "show"
    /\ pc' = "done"
    /\ stdout' = Append(stdout, "Animation saved successfully!")
    /\ UNCHANGED <<HistFixed, rng, frame, sample_means, mu, sigma, ax2, bins,
                   error, files, update_calls>>

(***************************************************************************)
(* Python built-ins and numpy helpers of the slider and violin scripts.    *)
(***************************************************************************)
\* list(range(start, stop, step)) for step > 0
py_range(start, stop, step) ==
    IF stop <= start THEN <<>>
    ELSE [i \in 1..((stop - start + step - 1) \div step) |-> start + (i - 1) * step]

\* l[:n] for n >= 0
py_prefix(l, n) == [i \in 1..Min(n, Len(l)) |-> l[i]]

\* A linspace that divides by num instead of num - 1 and so stops short of
\* its end point.
np_linspace_int_no_endpoint(start, stop, num) ==
    [i \in 1..num |-> start + ((i - 1) * (stop - start)) \div num]

\* np.linspace(start, stop, num, dtype=int) for num >= 2: the evenly spaced
\* values start + i * (stop - start) / (num - 1), truncated to integers.
np_linspace_int(start, stop, num) ==
    [i \in 1..num |-> start + ((i - 1) * (stop - start)) \div (num - 1)]

\* [np.random.choice(population, size=size).mean() for _ in range(count)]
\* with the generator at g: ValueError from the first draw on an empty
\* population, else the count means in the order drawn.
comprehension_means(pop, size, count, g) ==
    IF count > 0 /\ np_random_choice(pop, size, g).err # "none"
    THEN [err |-> np_random_choice(pop, size, g).err, val |-> <<>>]
    ELSE [err |-> "none",
          val |-> <<>> \o [i \in 1..count |->
                             ndarray_mean(np_random_choice(pop, size,
                                              Advance(g, (i - 1) * size)).val)]]

\* A collection that keeps what it held and adds the fresh means.
extend_collection(old, fresh) == old \o fresh

\* sample_means = [...]: the name is bound to the fresh list.
assign_collection(old, fresh) == fresh

(***************************************************************************)
(* Interactive_Sample_Size_Slider.py                                       *)
(***************************************************************************)
n_samples == 1000

\* sample_sizes = list(range(5, 105, 5))
sample_sizes == py_range(5, 105, 5)

\* create_clt_gif(population) has built the animation and anim.save has
\* started (init() was called).
InitSlider ==
    /\ script = "Interactive_Sample_Size_Slider"
    /\ max_sample_size = 0
    /\ pc = "gif_save"
    /\ population \in Populations
    /\ sample_size = 0
    /\ n_frames = Len(sample_sizes)
    /\ sample_means = <<>>
    /\ ffmpeg_path = "None"
    /\ mp4_fault = "none"

\* update(frame) of create_clt_gif, one frame of anim.save; after the last
\* frame the GIF is written and the script ends.
SliderFrame ==
    /\ script = "Interactive_Sample_Size_Slider"
    /\ pc = "gif_save"
    /\ frame < n_frames
    /\ update_calls' = update_calls + 1
    /\ sample_size' = sample_sizes[frame + 1]
    /\ \E c \in {comprehension_means(population, sample_size', n_samples, rng)} :
           IF c.err # "none"
           THEN /\ error' = c.err
                /\ pc' = "done"
                /\ UNCHANGED <<rng, frame, sample_means, mu, sigma, ax2, bins,
                               stdout, files>>
           ELSE /\ sample_means' = assign_collection(sample_means, c.val)
                /\ rng' = Advance(rng, n_samples * sample_size')
                /\ bins' = <<30>>
                /\ mu' = <<np_mean(sample_means')>>
                /\ sigma' = <<np_std(sample_means')>>
                /\ ax2' = {"hist"} \cup CurveArtists
                /\ error' = min_max(sample_means').err
                /\ IF frame + 1 = n_frames
                   THEN /\ pc' = "done"
                        /\ files' = files \cup {"clt_interactive_techy.gif"}
                        /\ stdout' = Append(stdout, "GIF saved")
                        /\ UNCHANGED frame
                   ELSE /\ pc' = "gif_save"
                        /\ frame' = frame + 1
                        /\ UNCHANGED <<stdout, files>>
    /\ UNCHANGED <<script, population, n_frames, max_sample_size,
                   sample_means_list, display_sizes, ffmpeg_path, mp4_fault>>

(***************************************************************************)
(* violin.py                                                               *)
(***************************************************************************)
violin_means == 1000
MinViolins == 4
MaxViolins == 8

MaxSampleSizes == {20, 100}      \* the script passes 100

\* sample_size_progression = list(range(5, max_sample_size + 1, 5))
sample_size_progression == py_range(5, max_sample_size + 1, 5)

\* clt_violin_comparison_static's sample_sizes
static_sample_sizes == <<5, 15, 30, 50, 100>>

\* Lines 43-52: the sizes shown in frame f.
display_sizes_of(f) ==
    LET current_sample_sizes == py_prefix(sample_size_progression, f + 1)
        L == Len(current_sample_sizes)
    IN  IF L <= MinViolins
        THEN current_sample_sizes
        ELSE LET indices == np_linspace_int(0, L - 1, Min(MaxViolins, L))
             IN  [i \in 1..Len(indices) |-> current_sample_sizes[indices[i] + 1]]

\* The for loop over sizes d[from..] appending one collection per size to
\* acc, with the generator at g: the lists, the generator afterwards, and the
\* ValueError of the first draw on an empty population.
RECURSIVE means_per_size(_, _, _, _)
means_per_size(d, from, acc, g) ==
    IF from > Len(d) THEN [err |-> "none", val |-> acc, rng |-> g]
    ELSE IF np_random_choice(population, d[from], g).err # "none"
    THEN [err |-> np_random_choice(population, d[from], g).err, val |-> acc,
          rng |-> g]
    ELSE means_per_size(d, from + 1,
             list_append(acc, comprehension_means(population, d[from],
                                                  violin_means, g).val),
             Advance(g, violin_means * d[from]))

\* clt_violin_comparison_gif(population, max_sample_size) has built the
\* animation and anim.save has started.
InitViolin ==
    /\ script = "violin"
    /\ max_sample_size \in MaxSampleSizes
    /\ pc = "gif_save"
    /\ population \in Populations
    /\ sample_size = 0
    /\ n_frames = Len(sample_size_progression)
    /\ sample_means = <<>>
    /\ ffmpeg_path = "None"
    /\ mp4_fault = "none"

\* update(frame) of clt_violin_comparison_gif, one frame of anim.save; after
\* the last frame the GIF is written and clt_violin_comparison_static is
\* called.
ViolinFrame ==
    /\ script = "violin"
    /\ pc = "gif_save"
    /\ frame < n_frames
    /\ update_calls' = update_calls + 1
    /\ display_sizes' = display_sizes_of(frame)
    /\ \E m \in {means_per_size(display_sizes', 1, <<>>, rng)} :
           IF m.err # "none"
           THEN /\ error' = m.err
                /\ pc' = "done"
                /\ sample_means_list' = m.val
                /\ UNCHANGED <<rng, frame, stdout, files>>
           ELSE /\ rng' = m.rng
                /\ error' = "none"
                /\ sample_means_list' = m.val
                /\ IF frame + 1 = n_frames
                   THEN /\ pc' = "static"
                        /\ frame' = 0
                        /\ files' = files \cup {"clt_violin_animated_techy.gif"}
                        /\ stdout' = Append(stdout, "GIF saved")
                   ELSE /\ pc' = "gif_save"
                        /\ frame' = frame + 1
                        /\ UNCHANGED <<stdout, files>>
    /\ UNCHANGED <<script, population, sample_size, n_frames, max_sample_size,
                   sample_means, mu, sigma, ax2, bins, ffmpeg_path, mp4_fault>>

\* One pass of "for size in sample_sizes" of clt_violin_comparison_static,
\* the first one starting from its own sample_means_list = []; after the
\* last one the plot is drawn and saved.
StaticLoop ==
    /\ script = "violin"
    /\ pc = "static"
    /\ frame < Len(static_sample_sizes)
    /\ \E m \in {means_per_size(<<static_sample_sizes[frame + 1]>>, 1,
                                 IF frame = 0 THEN <<>> ELSE sample_means_list,
                                 rng)} :
           /\ sample_means_list' = m.val
           /\ rng' = m.rng
           /\ error' = m.err
    /\ frame' = frame + 1
    /\ IF frame + 1 = Len(static_sample_sizes)
       THEN /\ pc' = "done"
            /\ files' = files \cup {"clt_violin_static_techy.png"}
            /\ stdout' = Append(stdout, "Static image saved")
       ELSE /\ pc' = "static"
            /\ UNCHANGED <<stdout, files>>
    /\ UNCHANGED <<script, population, sample_size, n_frames, max_sample_size,
                   sample_means, display_sizes, mu, sigma, ax2, bins,
                   ffmpeg_path, mp4_fault, update_calls>>

Init ==
    /\ InitCommon
    /\ \/ InitCLT
       \/ InitPlot
       \/ InitHist
       \/ InitSlider
       \/ InitViolin

Next ==
    \/ CLT_loop
    \/ plot_clt_results
    \/ Mp4Begin
    \/ Mp4Frame
    \/ GifFrame
    \/ ShowFrame
    \/ ShowClose
    \/ SliderFrame
    \/ ViolinFrame
    \/ StaticLoop

Spec == Init /\ [][Next]_vars

(***************************************************************************)
(* Properties.                                                             *)
(***************************************************************************)
Has(out, msg) == \E i \in 1..Len(out) : out[i] = msg

ValidInputs == Len(population) > 0 /\ sample_size >= 1

WithinPopulation(x) ==
    /\ FLe(FromInt(MinInts(population)), x)
    /\ FLe(x, FromInt(MaxInts(population)))

\* The generator ctr steps before g.
Retreat(g, m) == [g EXCEPT !.ctr = ((@ - (m % RngPeriod)) + RngPeriod) % RngPeriod]

\* C1: with a non-empty population and a sample size >= 1, every sample mean
\* stored in a collection (CLT.py's, the histogram's, the slider's, each of
\* the violin script's) lies within [min(population), max(population)].
C1_MeansWithinPopulation ==
    (script # "plot_clt_results" /\ Len(population) > 0
       /\ (script = "Animated_Histogram" => sample_size >= 1))
    => /\ \A i \in 1..Len(sample_means) : WithinPopulation(sample_means[i])
       /\ \A k \in 1..Len(sample_means_list) :
            \A i \in 1..Len(sample_means_list[k]) :
               WithinPopulation(sample_means_list[k][i])

\* A mean strictly inside the interval has been stored by update.
C1_Witness ==
    /\ script = "Animated_Histogram"
    /\ ValidInputs
    /\ \E i \in 1..Len(sample_means) :
          /\ WithinPopulation(sample_means[i])
          /\ ~FEq(sample_means[i], FromInt(MinInts(population)))
          /\ ~FEq(sample_means[i], FromInt(MaxInts(population)))

\* The mean of the i-th sample CLT.py draws: the generator starts at
\* counter 0 and every draw advances it by the sample size.
CLT_draw(i) ==
    ndarray_mean(np_random_choice(population, CLT_sample_size,
                     [key |-> rng.key, ctr |-> ((i - 1) * CLT_sample_size) % RngPeriod]).val)

\* The mean of the i-th sample of the k-th collection of
\* clt_violin_comparison_static, counted back from the generator's counter.
RECURSIVE DrawsFrom(_)
DrawsFrom(k) ==
    IF k > Len(sample_means_list) THEN 0
    ELSE violin_means * static_sample_sizes[k] + DrawsFrom(k + 1)

Static_draw(k, i) ==
    ndarray_mean(np_random_choice(population, static_sample_sizes[k],
                     Advance(Retreat(rng, DrawsFrom(k)),
                             (i - 1) * static_sample_sizes[k])).val)

\* C2: accumulation starts from an empty sequence and holds one element per
\* draw made, the i-th element being the mean of the i-th draw: CLT.py ends
\* with its 10 means in call order, and every collection of
\* clt_violin_comparison_static holds its 1000 means in call order.
C2_AccumulateInCallOrder ==
    /\ script = "CLT" =>
         /\ Len(sample_means) = frame
         /\ pc # "loop" => Len(sample_means) = CLT_iterations
         /\ \A i \in 1..Len(sample_means) : sample_means[i] = CLT_draw(i)
    /\ (script = "violin" /\ pc \in {"static", "done"} /\ frame > 0
          /\ error = "none") =>
         /\ Len(sample_means_list) = frame
         /\ \A k \in 1..Len(sample_means_list) :
              /\ Len(sample_means_list[k]) = violin_means
              /\ \A i \in 1..violin_means :
                    sample_means_list[k][i] = Static_draw(k, i)

\* CLT.py has finished its loop with means that are not all equal.
C2_Witness ==
    /\ script = "CLT"
    /\ pc = "done"
    /\ Len(sample_means) = CLT_iterations
    /\ \E i, j \in 1..Len(sample_means) : sample_means[i] # sample_means[j]

\* C3: the collection created by animated_clt never holds more than n_frames
\* elements (no append once n_frames is reached).
C3_NeverExceedsFrames ==
    (script = "Animated_Histogram" /\ ValidInputs)
    => Len(sample_means) <= n_frames

\* C4: with the encoder absent the run prints the skip warning, never starts
\* the MP4 save, writes no MP4 and goes on to the GIF save, which completes;
\* with the encoder found and the MP4 save failing with FileNotFoundError or
\* OSError the run goes on to the GIF save as well; neither error is ever
\* left unhandled.
C4_EncoderAbsentDegrades ==
    script = "Animated_Histogram" =>
      /\ error \notin {"FileNotFoundError", "OSError"}
      /\ ffmpeg_path = "None" => pc # "mp4_save"
      /\ (ffmpeg_path = "None" /\ pc # "main") =>
           /\ Has(stdout, "Skipping MP4: ffmpeg not found on PATH")
           /\ Has(stdout, "Saving as GIF...")
           /\ "clt_animation.mp4" \notin files
           /\ pc \in {"gif_save", "show", "done"}
      /\ (ffmpeg_path # "None" /\ mp4_fault # "none" /\ pc # "main"
            /\ ~(pc = "mp4_save" /\ update_calls = 0) /\ error = "none") =>
           /\ Has(stdout, "Skipping MP4 due to ffmpeg error")
           /\ Has(stdout, "Saving as GIF...")
           /\ "clt_animation.mp4" \notin files
           /\ pc \in {"gif_save", "show", "done"}
      /\ (ValidInputs /\ mp4_fault # "none" /\ pc \in {"show", "done"}) =>
           "clt_animation1.gif" \in files
      /\ (ValidInputs /\ ffmpeg_path = "None" /\ pc \in {"show", "done"}) =>
           "clt_animation1.gif" \in files

\* The encoder was absent and the run has ended with the GIF written.
C4_Witness ==
    /\ script = "Animated_Histogram"
    /\ ffmpeg_path = "None"
    /\ pc = "done"
    /\ error = "none"
    /\ Has(stdout, "Skipping MP4: ffmpeg not found on PATH")
    /\ files = {"clt_animation1.gif"}

\* C5: given an empty population or a non-positive sample size, update's
\* sampling raises an error and nothing is appended to the collection.
C5_InvalidInputFailsFast ==
    (script = "Animated_Histogram" /\ (Len(population) = 0 \/ sample_size <= 0))
    => /\ Len(sample_means) = 0
       /\ update_calls > 0 => error # "none"

\* C6: plot_clt_results on an empty collection ends with an error and puts
\* no fitted curve, mean line or (mu, sigma) legend on the axes.
C6_EmptySummaryFails ==
    (script \in {"CLT", "plot_clt_results"} /\ pc = "done"
       /\ Len(sample_means) = 0)
    => /\ error # "none"
       /\ ax2 \cap CurveArtists = {}

\* plot_clt_results was called on an empty array and raised ValueError.
C6_Witness ==
    /\ script = "plot_clt_results"
    /\ pc = "done"
    /\ sample_means = <<>>
    /\ error = "ValueError"

\* C7: plot_clt_results on a one-element collection [v] computes mu = v and
\* sigma = 0 without an error.
C7_SingleElementSummary ==
    (script = "plot_clt_results" /\ pc = "done" /\ Len(sample_means) = 1)
    => /\ error = "none"
       /\ mu = <<sample_means[1]>>
       /\ sigma = <<"zero">>

\* plot_clt_results has summarized [5.0].
C7_Witness ==
    /\ script = "plot_clt_results"
    /\ pc = "done"
    /\ sample_means = <<FromInt(5)>>
    /\ mu = <<FromInt(5)>>
    /\ sigma = <<"zero">>

\* C8: after every update of the animated histogram that returned, with L
\* the length of the collection: the sample-mean histogram is on the axes
\* exactly when L > 5, and mu, sigma and the normal curve exist exactly when
\* L > 30; for L <= 5 nothing is drawn, for 6..30 only the histogram.
C8_DrawingThresholds ==
    (script = "Animated_Histogram" /\ update_calls > 0 /\ error = "none") =>
      LET L == Len(sample_means)
      IN  /\ "hist" \in ax2 <=> L > 5
          /\ CurveArtists \subseteq ax2 <=> L > 30
          /\ mu # <<>> <=> L > 30
          /\ sigma # <<>> <=> L > 30
          /\ L <= 5 => ax2 = {}
          /\ (L > 5 /\ L <= 30) => ax2 = {"hist"}

\* The 31st mean has been appended and the curve fitted.
C8_Witness ==
    /\ script = "Animated_Histogram"
    /\ error = "none"
    /\ Len(sample_means) = 31
    /\ mu # <<>>
    /\ CurveArtists \subseteq ax2

\* The mean of the i-th sample of the slider's current frame, counted back
\* from the generator's counter.
Slider_draw(i) ==
    ndarray_mean(np_random_choice(population, sample_size,
                     Retreat(rng, (n_samples - i + 1) * sample_size)).val)

\* C9: after every frame of the slider the collection is exactly the 1000
\* means drawn in that frame, and after every frame of the animated violin
\* there is one collection of exactly 1000 means per displayed size; the
\* animated histogram's collection holds one element per update call whose
\* draw did not raise.
C9_RegenerateVersusExtend ==
    /\ (script = "Interactive_Sample_Size_Slider" /\ update_calls > 0
          /\ error = "none") =>
         /\ Len(sample_means) = n_samples
         /\ sample_size = sample_sizes[update_calls]
         /\ \A i \in 1..n_samples : sample_means[i] = Slider_draw(i)
    /\ (script = "violin" /\ update_calls > 0 /\ error = "none"
          /\ (pc = "gif_save" \/ (pc = "static" /\ frame = 0))) =>
         /\ Len(sample_means_list) = Len(display_sizes)
         /\ \A k \in 1..Len(sample_means_list) :
               Len(sample_means_list[k]) = violin_means
    /\ (script = "Animated_Histogram"
          /\ np_random_choice(population, sample_size, rng).err = "none") =>
         Len(sample_means) = update_calls

\* The slider has drawn its second frame.
C9_Witness ==
    /\ script = "Interactive_Sample_Size_Slider"
    /\ update_calls = 2
    /\ error = "none"
    /\ Len(sample_means) = n_samples

\* C10: every frame of the animated violin displays at least 4 and at most
\* 8 violins.
C10_FourToEightViolins ==
    (script = "violin" /\ update_calls > 0 /\ error = "none")
    => /\ Len(display_sizes) >= MinViolins
       /\ Len(display_sizes) <= MaxViolins

\* C11, state part: whenever update passes a bin count to ax2.hist (which it
\* does exactly when the collection holds L > 5 elements), the count is an
\* integer in 1..30, never 0, and it is 30 exactly when L >= 150.
C11_BinsNow ==
    (script = "Animated_Histogram" /\ update_calls > 0) =>
      LET L == Len(sample_means)
      IN  /\ L > 5 => bins # <<>>
          /\ bins # <<>> =>
               /\ L > 5
               /\ bins[1] \in 1..30
               /\ bins[1] = 30 <=> L >= 150

\* C11, step part: from one drawn histogram to the next the collection has
\* grown and the bin count has not decreased.
C11_BinsStep ==
    (script = "Animated_Histogram" /\ bins # <<>> /\ bins' # <<>>)
    => /\ Len(sample_means') >= Len(sample_means)
       /\ bins'[1] >= bins[1]

\* C11: the bin count min(30, L // 5) passed for L > 5 is between 1 and 30,
\* non-decreasing as L grows, and reaches 30 exactly when L >= 150.
C11_BinCount == [](C11_BinsNow) /\ [][C11_BinsStep]_vars

\* The histogram has been drawn with the full 30 bins on 150 means, and the
\* run had valid inputs.
C11_Witness ==
    /\ script = "Animated_Histogram"
    /\ ValidInputs
    /\ error = "none"
    /\ Len(sample_means) = 150
    /\ bins = <<30>>


\* C12: after every frame of the animated violin the displayed sample sizes
\* are strictly increasing and pairwise distinct, each is one of 5, 10, ...,
\* 5*(frame+1), the first is 5 and the last is 5*(frame+1); when more than 8
\* sizes are available the displayed ones are those at the indices
\* floor(i*(L-1)/7), i = 0..7, and these indices never repeat.
C12_DisplayedSizes ==
    (script = "violin" /\ update_calls > 0) =>
      LET L == update_calls
          n == Len(display_sizes)
          idx(i) == (i * (L - 1)) \div 7
      IN  /\ n > 0
          /\ \A i \in 1..(n - 1) : display_sizes[i] < display_sizes[i + 1]
          /\ \A i, j \in 1..n : i # j => display_sizes[i] # display_sizes[j]
          /\ \A i \in 1..n : \E k \in 1..L : display_sizes[i] = 5 * k
          /\ display_sizes[1] = 5
          /\ display_sizes[n] = 5 * L
          /\ L > 8 =>
               /\ n = 8
               /\ \A i \in 0..7 : display_sizes[i + 1] = 5 * (idx(i) + 1)
               /\ \A i, j \in 0..7 : i # j => idx(i) # idx(j)

\* The last frame of the 20-frame animation has been drawn: 8 of the 20
\* sizes are displayed, from 5 to 100.
C12_Witness ==
    /\ script = "violin"
    /\ update_calls = 20
    /\ error = "none"
    /\ Len(display_sizes) = 8
    /\ display_sizes[1] = 5
    /\ display_sizes[8] = 100

====
